---- MODULE Spec2Model ----
(***************************************************************************)
(* Univariate KZG polynomial commitment scheme                             *)
(* (jellyfish/primitives/src/pcs/univariate_kzg/mod.rs).                   *)
(*                                                                         *)
(* The pairing groups are modelled by their discrete logarithms: the       *)
(* scalar field Fr is the prime field of Q elements, an element a*G of G1  *)
(* (b*H of G2) is the scalar a (b), and the pairing e(a*G, b*H) is the     *)
(* exponent a*b of e(G, H) in the target group, whose identity ("one") is  *)
(* the exponent 0 and whose product is the sum of the exponents.           *)
(***************************************************************************)
EXTENDS Integers, Sequences, FiniteSets

\* ------------------------------------------------------------------------
\* Bounds of the model
\* ------------------------------------------------------------------------
FieldIdx == 1      \* index of the scalar field's order in SmallPrimes
MaxDeg == 2        \* largest supported degree an SRS is generated for
MaxVars == 2       \* largest number of variables handed to trim
MaxN == 2          \* largest number of statements in a batch,
                   \* and the longest randomizer stream

SmallPrimes == <<3, 5, 7, 11, 13>>
Q == SmallPrimes[FieldIdx]

\* ------------------------------------------------------------------------
\* Scalar field Fr and the groups G1, G2, GT
\* ------------------------------------------------------------------------
Fr == 0 .. (Q - 1)
FrZero == 0
FrOne == 1
FrAdd(a, b) == (a + b) % Q
FrNeg(a) == (Q - a) % Q
FrSub(a, b) == (a + Q - b) % Q
FrMul(a, b) == (a * b) % Q

G1 == 0 .. (Q - 1)
G1Zero == 0
G1Gen == 1
G2Gen == 1
G1Add(a, b) == (a + b) % Q
G1Neg(a) == (Q - a) % Q
G1Sub(a, b) == (a + Q - b) % Q
G1Mul(a, s) == (a * s) % Q
G2Mul(b, s) == (b * s) % Q

\* e(a, b), as the exponent of e(G, H)
Pairing(a, b) == (a * b) % Q
GtOne == 0

RECURSIVE SumPairings(_, _, _)
SumPairings(as, bs, k) ==
    IF k = 0 THEN GtOne
    ELSE (SumPairings(as, bs, k - 1) + Pairing(as[k], bs[k])) % Q

\* E::product_of_pairings / jf_utils::multi_pairing over two aligned lists
ProductOfPairings(as, bs) ==
    SumPairings(as, bs, IF Len(as) < Len(bs) THEN Len(as) ELSE Len(bs))

\* ------------------------------------------------------------------------
\* Results
\* ------------------------------------------------------------------------
Ok(v) == [tag |-> "Ok", val |-> v]
InvalidParameters == [tag |-> "Err", val |-> "InvalidParameters"]
Panic == [tag |-> "Panic", val |-> "panic"]

\* ------------------------------------------------------------------------
\* DensePolynomial: coefficients low to high, no trailing zero
\* ------------------------------------------------------------------------
RECURSIVE from_coefficients_vec(_)
from_coefficients_vec(cs) ==
    IF Len(cs) > 0 /\ cs[Len(cs)] = FrZero
    THEN from_coefficients_vec(SubSeq(cs, 1, Len(cs) - 1))
    ELSE cs

is_zero(p) == Len(p) = 0

degree(p) == IF is_zero(p) THEN 0 ELSE Len(p) - 1

RECURSIVE Horner(_, _, _)
Horner(p, z, k) ==
    IF k > Len(p) THEN FrZero
    ELSE FrAdd(p[k], FrMul(z, Horner(p, z, k + 1)))

evaluate(p, z) == Horner(p, z, 1)

\* DenseOrSparsePolynomial::divide_with_q_and_r for the monic divisor
\* <<-z, 1>>: the loop of the long division, on (quotient, remainder)
RECURSIVE DivLoop(_, _, _)
DivLoop(quotient, remainder, divisor) ==
    IF is_zero(remainder) \/ degree(remainder) < degree(divisor)
    THEN <<from_coefficients_vec(quotient), remainder>>
    ELSE LET cur_q_coeff == remainder[Len(remainder)]
             cur_q_degree == degree(remainder) - degree(divisor)
             sub == [i \in 1 .. Len(remainder) |->
                        IF i - 1 >= cur_q_degree /\ i - 1 - cur_q_degree < Len(divisor)
                        THEN FrSub(remainder[i],
                                   FrMul(cur_q_coeff, divisor[i - cur_q_degree]))
                        ELSE remainder[i]]
             set == [i \in 1 .. Len(quotient) |->
                        IF i = cur_q_degree + 1 THEN cur_q_coeff ELSE quotient[i]]
         IN  DivLoop(set, from_coefficients_vec(sub), divisor)

\* polynomial / &divisor : the quotient only
PolyDiv(p, divisor) ==
    IF is_zero(p) THEN <<>>
    ELSE IF degree(p) < degree(divisor) THEN <<>>
    ELSE DivLoop([i \in 1 .. (degree(p) - degree(divisor) + 1) |-> FrZero],
                 p, divisor)[1]

\* ------------------------------------------------------------------------
\* Structured reference string and its keys (srs.rs)
\* ------------------------------------------------------------------------
RECURSIVE FrPow(_, _)
FrPow(a, k) == IF k = 0 THEN FrOne ELSE FrMul(a, FrPow(a, k - 1))

\* powers_of_g[i] = tau^i * G for i in 0..=supported_size, h, beta_h = tau*h
gen_srs_for_testing(secret, supported_size) ==
    [powers_of_g |-> [i \in 1 .. (supported_size + 1) |->
                         G1Mul(G1Gen, FrPow(secret, i - 1))],
     h |-> G2Gen,
     beta_h |-> G2Mul(G2Gen, secret)]

\* the SRS's own trim: the first supported_size+1 powers, and (g, h, beta_h)
srs_trim(srs, supported_size) ==
    IF supported_size + 1 > Len(srs.powers_of_g)
    THEN InvalidParameters
    ELSE Ok(<<[powers_of_g |-> SubSeq(srs.powers_of_g, 1, supported_size + 1)],
              [g |-> srs.powers_of_g[1], h |-> srs.h, beta_h |-> srs.beta_h]>>)

\* Option<usize>: None is the empty list, Some(k) the list of k alone
NoVars == <<>>
Some(k) == <<k>>

\* trim, forwarding to the SRS whatever the number of variables
trim_IgnoresNumVars(srs, supported_degree, supported_num_vars) ==
    srs_trim(srs, supported_degree)

\* UnivariateKzgPCS::trim
trim(srs, supported_degree, supported_num_vars) ==
    IF supported_num_vars # NoVars
    THEN InvalidParameters
    ELSE srs_trim(srs, supported_degree)

\* ------------------------------------------------------------------------
\* Commit, open, verify
\* ------------------------------------------------------------------------
RECURSIVE CountLeadingZeros(_, _)
CountLeadingZeros(coeffs, num_leading_zeros) ==
    IF num_leading_zeros < Len(coeffs) /\ coeffs[num_leading_zeros + 1] = FrZero
    THEN CountLeadingZeros(coeffs, num_leading_zeros + 1)
    ELSE num_leading_zeros

convert_to_bigints(coeffs) == coeffs

\* (num_leading_zeros, the coefficients after them)
skip_leading_zeros_and_convert_to_bigints(p) ==
    LET num_leading_zeros == CountLeadingZeros(p, 0)
    IN  <<num_leading_zeros,
          convert_to_bigints(SubSeq(p, num_leading_zeros + 1, Len(p)))>>

RECURSIVE MsmSum(_, _, _)
MsmSum(bases, scalars, k) ==
    IF k = 0 THEN G1Zero
    ELSE G1Add(MsmSum(bases, scalars, k - 1), G1Mul(bases[k], scalars[k]))

\* VariableBaseMSM::multi_scalar_mul: pairs up to the shorter of the two lists
multi_scalar_mul(bases, scalars) ==
    MsmSum(bases, scalars,
           IF Len(bases) < Len(scalars) THEN Len(bases) ELSE Len(scalars))

\* powers_of_g[num_leading_zeros..] panics when the start is past the end
SliceFromInRange(s, start) == start <= Len(s)
SliceFrom(s, start) == SubSeq(s, start + 1, Len(s))

\* commit, pairing the coefficients after the leading zeros with the first powers
commit_NoOffset(prover_param, poly) ==
    IF degree(poly) > Len(prover_param.powers_of_g)
    THEN InvalidParameters
    ELSE Ok(multi_scalar_mul(prover_param.powers_of_g,
                             skip_leading_zeros_and_convert_to_bigints(poly)[2]))

commit(prover_param, poly) ==
    IF degree(poly) > Len(prover_param.powers_of_g)
    THEN InvalidParameters
    ELSE LET skipped == skip_leading_zeros_and_convert_to_bigints(poly)
             num_leading_zeros == skipped[1]
             plain_coeffs == skipped[2]
         IN  IF ~SliceFromInRange(prover_param.powers_of_g, num_leading_zeros)
             THEN Panic
             ELSE Ok(multi_scalar_mul(
                         SliceFrom(prover_param.powers_of_g, num_leading_zeros),
                         plain_coeffs))

\* open, forgetting to offset powers_of_g by the skipped coefficients
open_NoOffset(prover_param, polynomial, point) ==
    LET divisor == from_coefficients_vec(<<FrNeg(point), FrOne>>)
        witness_polynomial == PolyDiv(polynomial, divisor)
        witness_coeffs == skip_leading_zeros_and_convert_to_bigints(witness_polynomial)[2]
    IN  Ok([proof |-> multi_scalar_mul(prover_param.powers_of_g, witness_coeffs),
            eval |-> evaluate(polynomial, point)])

open(prover_param, polynomial, point) ==
    LET divisor == from_coefficients_vec(<<FrNeg(point), FrOne>>)
        witness_polynomial == PolyDiv(polynomial, divisor)
        skipped == skip_leading_zeros_and_convert_to_bigints(witness_polynomial)
        num_leading_zeros == skipped[1]
        witness_coeffs == skipped[2]
    IN  IF ~SliceFromInRange(prover_param.powers_of_g, num_leading_zeros)
        THEN Panic
        ELSE Ok([proof |-> multi_scalar_mul(
                               SliceFrom(prover_param.powers_of_g, num_leading_zeros),
                               witness_coeffs),
                 eval |-> evaluate(polynomial, point)])

\* verify, leaving the claimed value out of the first pairing
verify_DropsValue(verifier_param, commitment, point, value, proof) ==
    Ok(ProductOfPairings(
           <<G1Sub(G1Neg(G1Mul(proof, point)), commitment), proof>>,
           <<verifier_param.h, verifier_param.beta_h>>) = GtOne)

\* verify, with the first pairing's argument C - v*g - z*W
verify_WrittenSign(verifier_param, commitment, point, value, proof) ==
    Ok(ProductOfPairings(
           <<G1Sub(G1Sub(commitment, G1Mul(verifier_param.g, value)),
                   G1Mul(proof, point)), proof>>,
           <<verifier_param.h, verifier_param.beta_h>>) = GtOne)

\* verify, with h and beta_h exchanged
verify_SwappedKeys(verifier_param, commitment, point, value, proof) ==
    Ok(ProductOfPairings(
           <<G1Sub(G1Sub(G1Mul(verifier_param.g, value), G1Mul(proof, point)),
                   commitment), proof>>,
           <<verifier_param.beta_h, verifier_param.h>>) = GtOne)

verify(verifier_param, commitment, point, value, proof) ==
    LET pairing_inputs_g1 ==
            <<G1Sub(G1Sub(G1Mul(verifier_param.g, value), G1Mul(proof, point)),
                    commitment),
              proof>>
        pairing_inputs_g2 == <<verifier_param.h, verifier_param.beta_h>>
        res == ProductOfPairings(pairing_inputs_g1, pairing_inputs_g2) = GtOne
    IN  Ok(res)

\* ------------------------------------------------------------------------
\* Batch verification
\* ------------------------------------------------------------------------
Min(a, b) == IF a < b THEN a ELSE b

\* the loop of batch_verify over the zipped lists, from statement k on;
\* acc = [total_c, total_w, g_multiplier, randomizer]
RECURSIVE BatchLoop(_, _, _, _, _, _, _)
BatchLoop(multi_commitment, points, values, batch_proof, randomizers, k, acc) ==
    IF k > Min(Min(Len(multi_commitment), Len(points)),
               Min(Len(values), Len(batch_proof)))
    THEN Ok(acc)
    ELSE LET w == batch_proof[k]
             c == G1Add(G1Mul(w, points[k]), multi_commitment[k])
             g_multiplier == FrAdd(acc.g_multiplier, FrMul(acc.randomizer, values[k]))
             total_c == G1Add(acc.total_c, G1Mul(c, acc.randomizer))
             total_w == G1Add(acc.total_w, G1Mul(w, acc.randomizer))
         IN  IF k > Len(randomizers)
             THEN InvalidParameters
             ELSE BatchLoop(multi_commitment, points, values, batch_proof,
                            randomizers, k + 1,
                            [total_c |-> total_c, total_w |-> total_w,
                             g_multiplier |-> g_multiplier,
                             randomizer |-> randomizers[k]])

BatchAccZero ==
    [total_c |-> G1Zero, total_w |-> G1Zero, g_multiplier |-> FrZero,
     randomizer |-> FrOne]

\* the final check of batch_verify on the loop's accumulators
BatchFinal(verifier_param, acc, w_sign) ==
    LET total_c == G1Sub(acc.total_c, G1Mul(verifier_param.g, acc.g_multiplier))
        total_w == IF w_sign THEN G1Neg(acc.total_w) ELSE acc.total_w
    IN  Ok(ProductOfPairings(<<total_w, total_c>>,
                             <<verifier_param.beta_h, verifier_param.h>>) = GtOne)

\* batch_verify, pairing total_w instead of -total_w with beta_h
batch_verify_PlusW(verifier_param, multi_commitment, points, values, batch_proof, randomizers) ==
    LET looped == BatchLoop(multi_commitment, points, values, batch_proof,
                            randomizers, 1, BatchAccZero)
    IN  IF looped.tag # "Ok" THEN looped
        ELSE BatchFinal(verifier_param, looped.val, FALSE)

\* batch_verify, taking the first randomizer from the stream instead of 1
batch_verify_NoLeadingOne(verifier_param, multi_commitment, points, values, batch_proof, randomizers) ==
    LET looped == BatchLoop(multi_commitment, points, values, batch_proof,
                            randomizers, 1,
                            [BatchAccZero EXCEPT !.randomizer =
                                IF Len(randomizers) > 0 THEN randomizers[1]
                                ELSE FrOne])
    IN  IF looped.tag # "Ok" THEN looped
        ELSE BatchFinal(verifier_param, looped.val, TRUE)

\* batch_verify, going on with randomizer 1 once the stream is exhausted
batch_verify_PadsStream(verifier_param, multi_commitment, points, values, batch_proof, randomizers) ==
    LET padded == randomizers \o [k \in 1 .. Len(values) |-> FrOne]
        looped == BatchLoop(multi_commitment, points, values, batch_proof,
                            padded, 1, BatchAccZero)
    IN  IF looped.tag # "Ok" THEN looped
        ELSE BatchFinal(verifier_param, looped.val, TRUE)

\* batch_verify, leaving g_multiplier * g in total_c
batch_verify_KeepsG(verifier_param, multi_commitment, points, values, batch_proof, randomizers) ==
    LET looped == BatchLoop(multi_commitment, points, values, batch_proof,
                            randomizers, 1, BatchAccZero)
    IN  IF looped.tag # "Ok" THEN looped
        ELSE BatchFinal(verifier_param,
                        [looped.val EXCEPT !.g_multiplier = FrZero], TRUE)

batch_verify(verifier_param, multi_commitment, points, values, batch_proof, randomizers) ==
    LET looped == BatchLoop(multi_commitment, points, values, batch_proof,
                            randomizers, 1,
                            [total_c |-> G1Zero, total_w |-> G1Zero,
                             g_multiplier |-> FrZero, randomizer |-> FrOne])
    IN  IF looped.tag # "Ok"
        THEN looped
        ELSE LET total_c == G1Sub(looped.val.total_c,
                                  G1Mul(verifier_param.g, looped.val.g_multiplier))
                 affine_points == <<G1Neg(looped.val.total_w), total_c>>
             IN  Ok(ProductOfPairings(affine_points,
                                      <<verifier_param.beta_h, verifier_param.h>>)
                    = GtOne)

\* ScalarsAndBases: the (scalar, base) contributions, collapsed by one MSM
SB_new == <<>>
SB_push(sb, scalar, base) == Append(sb, <<scalar, base>>)
SB_merge(sb, scalar, other) ==
    sb \o [i \in 1 .. Len(other) |-> <<FrMul(other[i][1], scalar), other[i][2]>>]
SB_multi_scalar_mul(sb) ==
    multi_scalar_mul([i \in 1 .. Len(sb) |-> sb[i][2]],
                     [i \in 1 .. Len(sb) |-> sb[i][1]])

\* iter::once(1).chain(randomizers.take(seq_len - 1)); seq_len - 1 is a usize
\* subtraction: with overflow checks it panics at seq_len = 0, without them it
\* wraps to usize::MAX and take() drains the whole stream
Materialize(seq_len, randomizers, overflow_checks) ==
    IF seq_len = 0
    THEN IF overflow_checks THEN Panic ELSE Ok(<<FrOne>> \o randomizers)
    ELSE Ok(<<FrOne>> \o SubSeq(randomizers, 1, Min(seq_len - 1, Len(randomizers))))

\* PushPipeline, pushing r * (point or 1) without the combiner
RECURSIVE PushPipeline_NoCombiner(_, _, _, _, _, _)
PushPipeline_NoCombiner(sb, proofs, combiners, scale, rs, k) ==
    IF k = 0 THEN sb
    ELSE SB_push(PushPipeline_NoCombiner(sb, proofs, combiners, scale, rs, k - 1),
                 FrMul(rs[k], scale[k]), proofs[k])

\* pushes (r * combiner * (point or 1), proof) for items 1..k of pipeline i
RECURSIVE PushPipeline(_, _, _, _, _, _)
PushPipeline(sb, proofs, combiners, scale, rs, k) ==
    IF k = 0 THEN sb
    ELSE SB_push(PushPipeline(sb, proofs, combiners, scale, rs, k - 1),
                 FrMul(FrMul(rs[k], combiners[k]), scale[k]), proofs[k])

RECURSIVE TotalWInners(_, _, _, _)
TotalWInners(batch_proof, combiners, rs, i) ==
    IF i = 0 THEN SB_new
    ELSE PushPipeline(TotalWInners(batch_proof, combiners, rs, i - 1),
                      batch_proof[i], combiners[i],
                      [k \in 1 .. Len(batch_proof[i]) |-> FrOne], rs,
                      Min(Min(Len(batch_proof[i]), Len(combiners[i])), Len(rs)))

RECURSIVE MergeCommitments(_, _, _)
MergeCommitments(multi_commitment, rs, k) ==
    IF k = 0 THEN SB_new
    ELSE SB_merge(MergeCommitments(multi_commitment, rs, k - 1),
                  rs[k], multi_commitment[k])

RECURSIVE TotalCInners(_, _, _, _, _, _)
TotalCInners(sb, points, batch_proof, combiners, rs, i) ==
    IF i = 0 THEN sb
    ELSE PushPipeline(TotalCInners(sb, points, batch_proof, combiners, rs, i - 1),
                      batch_proof[i], combiners[i], points[i], rs,
                      Min(Min(Len(points[i]), Len(batch_proof[i])),
                          Min(Len(combiners[i]), Len(rs))))

RECURSIVE SumEvals(_, _, _)
SumEvals(values, rs, k) ==
    IF k = 0 THEN FrZero
    ELSE FrAdd(SumEvals(values, rs, k - 1), FrMul(values[k], rs[k]))

\* points, batch_proof and combiners are lists of ARITY lists
batch_verify_aggregated(verifier_param, multi_commitment, points, values, batch_proof, combiners, randomizers, overflow_checks) ==
    LET seq_len == Len(values)
        materialized == Materialize(seq_len, randomizers, overflow_checks)
    IN  IF materialized.tag # "Ok" THEN materialized
        ELSE IF Len(materialized.val) # seq_len THEN InvalidParameters
        ELSE LET rs == materialized.val
                 ARITY == Len(batch_proof)
                 total_w == SB_multi_scalar_mul(
                                TotalWInners(batch_proof, combiners, rs, ARITY))
                 merged == MergeCommitments(multi_commitment, rs,
                                            Min(Len(multi_commitment), Len(rs)))
                 pushed == TotalCInners(merged, points, batch_proof, combiners,
                                        rs, ARITY)
                 sum_evals == SumEvals(values, rs, Min(Len(values), Len(rs)))
                 total_c == SB_multi_scalar_mul(
                                SB_push(pushed, FrNeg(sum_evals), verifier_param.g))
                 g1_elems == <<total_w, G1Neg(total_c)>>
                 g2_elems == <<verifier_param.beta_h, verifier_param.h>>
             IN  Ok(ProductOfPairings(g1_elems, g2_elems) = GtOne)

\* ------------------------------------------------------------------------
\* batch_commit and batch_open
\* ------------------------------------------------------------------------
\* the items handed to the workers, by position in the slice
parallelizable_slice_iter(items) == 1 .. Len(items)

Failed(finished) == \E k \in 1 .. Len(finished) : finished[k][2].tag = "Err"

\* the result of the worker that took item i
SlotOf(finished, i) ==
    finished[CHOOSE k \in 1 .. Len(finished) : finished[k][1] = i][2]

\* collect, delivering the results in the order the workers finished
collect_CompletionOrder(finished, n) ==
    IF Failed(finished)
    THEN InvalidParameters
    ELSE Ok([k \in 1 .. Len(finished) |-> finished[k][2].val])

\* .collect::<Result<Vec<_>, PCSError>>()? over the workers' results, which
\* finished holds as <<index, result>> in completion order
collect(finished, n) ==
    IF Failed(finished)
    THEN InvalidParameters
    ELSE Ok([i \in 1 .. n |-> SlotOf(finished, i).val])

RECURSIVE BatchOpenLoop(_, _, _, _, _, _)
BatchOpenLoop(prover_param, polynomials, points, k, batch_proof, evals) ==
    IF k > Min(Len(polynomials), Len(points))
    THEN Ok([batch_proof |-> batch_proof, evals |-> evals])
    ELSE LET opened == open(prover_param, polynomials[k], points[k])
         IN  IF opened.tag # "Ok"
             THEN opened
             ELSE BatchOpenLoop(prover_param, polynomials, points, k + 1,
                                Append(batch_proof, opened.val.proof),
                                Append(evals, opened.val.eval))

batch_open(prover_param, multi_commitment, polynomials, points) ==
    IF Len(polynomials) # Len(points)
    THEN InvalidParameters
    ELSE BatchOpenLoop(prover_param, polynomials, points, 1, <<>>, <<>>)

\* ------------------------------------------------------------------------
\* Inputs
\* ------------------------------------------------------------------------
\* all coefficient vectors of length at most n
RECURSIVE CoeffVecs(_)
CoeffVecs(n) ==
    IF n = 0 THEN {<<>>}
    ELSE LET shorter == CoeffVecs(n - 1)
         IN  shorter \cup {Append(cs, c) : cs \in {v \in shorter : Len(v) = n - 1},
                                           c \in Fr}

\* the dense polynomials of degree at most MaxDeg + 1 (one past the largest key)
Polys == {from_coefficients_vec(cs) : cs \in CoeffVecs(MaxDeg + 2)}

None == "None"

\* no proof of the batch has been substituted
NoReplacement == [index |-> 0, poly |-> <<>>]

\* ------------------------------------------------------------------------
\* State
\* ------------------------------------------------------------------------
VARIABLES
    secret,          \* tau of the SRS
    prover_param,    \* [powers_of_g]
    verifier_param,  \* [g, h, beta_h]
    op,              \* the operation that ran last
    poly,            \* the prover's polynomial
    commitment,      \* result of commit(prover_param, poly)
    point,           \* the point the prover opened at
    opening,         \* result of open(prover_param, poly, point)
    statement,       \* what the verifier was given
    accepted,        \* result of the verifier's call
    polys,           \* the polynomials behind a batch, in order
    replaced,        \* the proof substituted in a batch: [index, poly]
    slots,           \* batch_commit's finished workers: <<index, result>>
    returned         \* result of trim, batch_commit or batch_open

vars == <<secret, prover_param, verifier_param, op, poly, commitment, point,
          opening, statement, accepted, polys, replaced, slots, returned>>

keys == <<secret, prover_param, verifier_param>>

batch == <<polys, replaced>>

calls == <<slots, returned>>

single == <<poly, commitment, point, opening>>

supported_degree == Len(prover_param.powers_of_g) - 1

\* gen_srs_for_testing(rng, MaxDeg) followed by trim(srs, d, None)
Setup(tau, d) ==
    LET trimmed == trim(gen_srs_for_testing(tau, MaxDeg), d, NoVars)
    IN  /\ trimmed.tag = "Ok"
        /\ secret = tau
        /\ prover_param = trimmed.val[1]
        /\ verifier_param = trimmed.val[2]

Init ==
    /\ \E tau \in Fr, d \in 0 .. MaxDeg : Setup(tau, d)
    /\ op = "trim"
    /\ poly = None
    /\ commitment = None
    /\ point = None
    /\ opening = None
    /\ statement = None
    /\ accepted = None
    /\ polys = None
    /\ replaced = NoReplacement
    /\ slots = <<>>
    /\ returned = None

\* the prover commits to a polynomial. The operations are pure functions of
\* the keys and their arguments, so every session starts from the fresh keys
Commit ==
    /\ op = "trim"
    /\ \E p \in Polys :
        /\ op' = "commit"
        /\ poly' = p
        /\ commitment' = commit(prover_param, p)
        /\ point' = None
        /\ opening' = None
        /\ statement' = None
        /\ accepted' = None
        /\ UNCHANGED <<keys, calls, batch>>

\* the prover opens its polynomial at a point; open takes the polynomial, not
\* the commitment, so it runs whether or not commit accepted the polynomial
Open ==
    /\ op = "commit"
    /\ \E z \in Fr :
        /\ op' = "open"
        /\ point' = z
        /\ opening' = open(prover_param, poly, z)
        /\ statement' = None
        /\ accepted' = None
        /\ UNCHANGED <<keys, calls, batch, poly, commitment>>

\* the verifier checks the prover's commitment and proof against a claimed value
Verify ==
    /\ op = "open"
    /\ commitment.tag = "Ok"
    /\ opening.tag = "Ok"
    /\ \E v \in Fr :
        /\ op' = "verify"
        /\ statement' = [commitment |-> commitment.val, point |-> point,
                         value |-> v, proof |-> opening.val.proof]
        /\ accepted' = verify(verifier_param, commitment.val, point, v,
                              opening.val.proof)
        /\ UNCHANGED <<keys, calls, batch, single>>

\* the verifier checks an arbitrary statement
VerifyAny ==
    /\ op = "trim"
    /\ \E c \in G1, z \in Fr, v \in Fr, w \in G1 :
        /\ op' = "verify_any"
        /\ statement' = [commitment |-> c, point |-> z, value |-> v, proof |-> w]
        /\ accepted' = verify(verifier_param, c, z, v, w)
        /\ poly' = None
        /\ commitment' = None
        /\ point' = None
        /\ opening' = None
        /\ UNCHANGED <<keys, calls, batch>>

\* a caller trims the SRS to a degree, with or without a number of variables
TrimCall ==
    /\ op = "trim"
    /\ \E deg \in 0 .. (MaxDeg + 1), num_vars \in {NoVars} \cup {Some(k) : k \in 0 .. MaxVars} :
        /\ op' = "trim_call"
        /\ statement' = [supported_degree |-> deg, supported_num_vars |-> num_vars]
        /\ returned' = trim(gen_srs_for_testing(secret, MaxDeg), deg, num_vars)
        /\ UNCHANGED <<keys, single, batch, accepted, slots>>

Next == Commit \/ Open \/ Verify \/ VerifyAny \/ TrimCall

Spec == Init /\ [][Next]_vars

\* ------------------------------------------------------------------------
\* Batches: the prover side of batch_check_test_template, an adversary that
\* substitutes a proof or shortens a list, and the two batch verifiers
\* ------------------------------------------------------------------------
\* sample polynomials: 1 + X and 2 + X have the same quotient by X - z
BatchPolys == {<<1, 1>>, <<2, 1>>, <<0, 1, 1>>}

\* the (polynomial, point) pairs the prover opens
BatchInputs == {<<<<1, 1>>, 0>>, <<<<2, 1>>, 1>>, <<<<0, 1, 1>>, 0>>, <<<<0, 1, 1>>, 1>>}

\* the finite randomizer streams, over sample values
RandomizerPool == {0, 1, 2}
Streams == UNION {[1 .. k -> RandomizerPool] : k \in 0 .. MaxN}

ListNames == {"multi_commitment", "points", "values", "batch_proof"}

InitBatch ==
    /\ \E tau \in Fr : Setup(tau, MaxDeg)
    /\ op = "trim"
    /\ poly = None
    /\ commitment = None
    /\ point = None
    /\ opening = None
    /\ statement = [multi_commitment |-> <<>>, points |-> <<>>, values |-> <<>>,
                    batch_proof |-> <<>>]
    /\ accepted = None
    /\ polys = <<>>
    /\ replaced = NoReplacement
    /\ slots = <<>>
    /\ returned = None

\* one turn of the template's loop: commit, open, push the four results
ProveStatement ==
    /\ op \in {"trim", "prove"}
    /\ Len(polys) < MaxN
    /\ \E input \in BatchInputs :
        LET p == input[1]
            z == input[2]
            comm == commit(prover_param, p)
            opened == open(prover_param, p, z)
        IN  /\ comm.tag = "Ok"
            /\ opened.tag = "Ok"
            /\ op' = "prove"
            /\ polys' = Append(polys, p)
            /\ statement' =
                   [multi_commitment |-> Append(statement.multi_commitment, comm.val),
                    points |-> Append(statement.points, z),
                    values |-> Append(statement.values, opened.val.eval),
                    batch_proof |-> Append(statement.batch_proof, opened.val.proof)]
            /\ UNCHANGED <<keys, calls, single, accepted, replaced>>

\* the proof at one index is replaced by the opening proof of another
\* polynomial at the same point
ReplaceProof ==
    /\ op = "prove"
    /\ \E i \in 1 .. Len(polys) :
       \E p \in BatchPolys \ {polys[i]} :
        LET opened == open(prover_param, p, statement.points[i])
        IN  /\ opened.tag = "Ok"
            /\ op' = "replace"
            /\ replaced' = [index |-> i, poly |-> p]
            /\ statement' = [statement EXCEPT !.batch_proof[i] = opened.val.proof]
            /\ UNCHANGED <<keys, calls, single, accepted, polys>>

\* one of the four lists loses its last element
DropLast ==
    /\ op = "prove"
    /\ \E name \in ListNames :
        /\ op' = "drop"
        /\ statement' = [statement EXCEPT
                            ![name] = SubSeq(statement[name], 1, Len(statement[name]) - 1)]
        /\ UNCHANGED <<keys, calls, single, accepted, polys, replaced>>

Assembled == op \in {"trim", "prove", "replace", "drop"}

BatchVerify ==
    /\ Assembled
    /\ \E randomizers \in Streams :
        /\ op' = "batch_verify"
        /\ statement' = [multi_commitment |-> statement.multi_commitment,
                         points |-> statement.points,
                         values |-> statement.values,
                         batch_proof |-> statement.batch_proof,
                         randomizers |-> randomizers]
        /\ accepted' = batch_verify(verifier_param, statement.multi_commitment,
                                    statement.points, statement.values,
                                    statement.batch_proof, randomizers)
        /\ UNCHANGED <<keys, calls, single, batch>>

\* the same batch as one pipeline: ARITY = 1, every combiner 1, and every
\* commitment C_j as the accumulator holding the pair (1, C_j)
BatchVerifyAggregated ==
    /\ Assembled
    /\ \E randomizers \in Streams, overflow_checks \in BOOLEAN :
        LET multi_commitment == [j \in 1 .. Len(statement.multi_commitment) |->
                                    SB_push(SB_new, FrOne, statement.multi_commitment[j])]
            combiners == [j \in 1 .. Len(statement.batch_proof) |-> FrOne]
        IN  /\ op' = "batch_verify_aggregated"
            /\ statement' = [multi_commitment |-> multi_commitment,
                             points |-> <<statement.points>>,
                             values |-> statement.values,
                             batch_proof |-> <<statement.batch_proof>>,
                             combiners |-> <<combiners>>,
                             randomizers |-> randomizers]
            /\ accepted' = batch_verify_aggregated(
                               verifier_param, multi_commitment, <<statement.points>>,
                               statement.values, <<statement.batch_proof>>,
                               <<combiners>>, randomizers, overflow_checks)
            /\ UNCHANGED <<keys, calls, single, batch>>

NextBatch ==
    ProveStatement \/ ReplaceProof \/ DropLast \/ BatchVerify \/ BatchVerifyAggregated

SpecBatch == InitBatch /\ [][NextBatch]_vars

\* ------------------------------------------------------------------------
\* The prover's batch calls: batch_commit run by workers that finish in any
\* order, and batch_open
\* ------------------------------------------------------------------------
\* X^3 divided by X has two leading zero coefficients
ProverPolys == BatchPolys \cup {<<0, 0, 0, 1>>}
PolyLists == UNION {[1 .. k -> ProverPolys] : k \in 0 .. MaxN}
PointPool == {0, 1}
PointLists == UNION {[1 .. k -> PointPool] : k \in 0 .. MaxN}
BatchCommitments == {<<>>, <<G1Gen>>}

BatchCommitCall ==
    /\ op = "trim"
    /\ \E ps \in PolyLists :
        /\ op' = "batch_commit"
        /\ polys' = ps
        /\ slots' = <<>>
        /\ returned' = None
        /\ UNCHANGED <<keys, single, statement, accepted, replaced>>

Taken == {slots[k][1] : k \in 1 .. Len(slots)}

\* one worker finishes: |poly| Self::commit(prover_param, poly)
Worker ==
    /\ op = "batch_commit"
    /\ \E i \in parallelizable_slice_iter(polys) \ Taken :
        /\ slots' = Append(slots, <<i, commit(prover_param, polys[i])>>)
        /\ UNCHANGED <<keys, single, batch, op, statement, accepted, returned>>

\* the results are collected once every worker has finished, or as soon as
\* one of them has failed
Collect ==
    /\ op = "batch_commit"
    /\ Taken = parallelizable_slice_iter(polys) \/ Failed(slots)
    /\ op' = "batch_commit_done"
    /\ returned' = collect(slots, Len(polys))
    /\ UNCHANGED <<keys, single, batch, slots, statement, accepted>>

BatchOpenCall ==
    /\ op = "trim"
    /\ \E ps \in PolyLists, zs \in PointLists, bc \in BatchCommitments :
        /\ op' = "batch_open"
        /\ statement' = [multi_commitment |-> bc, polynomials |-> ps, points |-> zs]
        /\ returned' = batch_open(prover_param, bc, ps, zs)
        /\ UNCHANGED <<keys, single, batch, slots, accepted>>

NextProver == BatchCommitCall \/ Worker \/ Collect \/ BatchOpenCall

SpecProver == Init /\ [][NextProver]_vars

\* ------------------------------------------------------------------------
\* Aggregated batches over ARITY pipelines: the caller assembles items, each
\* with one accumulated commitment, one value and, per pipeline, a point, a
\* proof and a combiner, and runs batch_verify_aggregated
\* ------------------------------------------------------------------------
ARITY == 2

PipelineSamples ==
    {[point |-> 0, proof |-> 1, combiner |-> 1],
     [point |-> 1, proof |-> 2, combiner |-> 2]}

\* (value, accumulated commitment) of an item
ItemSamples ==
    {<<0, SB_push(SB_new, FrOne, G1Gen)>>,
     <<1, SB_push(SB_push(SB_new, FrOne, G1Mul(G1Gen, 2)), 2, G1Gen)>>}

InitAggregated ==
    /\ \E tau \in Fr : Setup(tau, MaxDeg)
    /\ op = "trim"
    /\ poly = None
    /\ commitment = None
    /\ point = None
    /\ opening = None
    /\ statement = [multi_commitment |-> <<>>,
                    points |-> [i \in 1 .. ARITY |-> <<>>],
                    values |-> <<>>,
                    batch_proof |-> [i \in 1 .. ARITY |-> <<>>],
                    combiners |-> [i \in 1 .. ARITY |-> <<>>]]
    /\ accepted = None
    /\ polys = None
    /\ replaced = NoReplacement
    /\ slots = <<>>
    /\ returned = None

AddItem ==
    /\ op \in {"trim", "item"}
    /\ Len(statement.values) < MaxN
    /\ \E pipes \in [1 .. ARITY -> PipelineSamples], item \in ItemSamples :
        /\ op' = "item"
        /\ statement' =
               [multi_commitment |-> Append(statement.multi_commitment, item[2]),
                points |-> [i \in 1 .. ARITY |->
                               Append(statement.points[i], pipes[i].point)],
                values |-> Append(statement.values, item[1]),
                batch_proof |-> [i \in 1 .. ARITY |->
                                    Append(statement.batch_proof[i], pipes[i].proof)],
                combiners |-> [i \in 1 .. ARITY |->
                                  Append(statement.combiners[i], pipes[i].combiner)]]
        /\ UNCHANGED <<keys, calls, single, batch, accepted>>

AggregatedVerify ==
    /\ op \in {"trim", "item"}
    /\ \E randomizers \in Streams, overflow_checks \in BOOLEAN :
        /\ op' = "batch_verify_aggregated"
        /\ statement' = [multi_commitment |-> statement.multi_commitment,
                         points |-> statement.points,
                         values |-> statement.values,
                         batch_proof |-> statement.batch_proof,
                         combiners |-> statement.combiners,
                         randomizers |-> randomizers]
        /\ accepted' = batch_verify_aggregated(
                           verifier_param, statement.multi_commitment,
                           statement.points, statement.values,
                           statement.batch_proof, statement.combiners,
                           randomizers, overflow_checks)
        /\ UNCHANGED <<keys, calls, single, batch>>

NextAggregated == AddItem \/ AggregatedVerify

SpecAggregated == InitAggregated /\ [][NextAggregated]_vars

\* ------------------------------------------------------------------------
\* Properties of commit, open and verify
\* ------------------------------------------------------------------------
\* p(z) as the sum of p_i * z^i
RECURSIVE PowerSum(_, _, _)
PowerSum(p, z, k) ==
    IF k = 0 THEN FrZero
    ELSE FrAdd(PowerSum(p, z, k - 1), FrMul(p[k], FrPow(z, k - 1)))

DirectEval(p, z) == PowerSum(p, z, Len(p))

HonestSession ==
    op \in {"commit", "open", "verify"} /\ degree(poly) <= supported_degree

\* C1: round trip. For a polynomial of degree at most the supported degree,
\* commit succeeds, open succeeds and returns p(z), and verify accepts the
\* commitment, the point, the returned value and the returned proof.
C1_RoundTrip ==
    /\ (op = "commit" /\ HonestSession) => commitment.tag = "Ok"
    /\ (op = "open" /\ HonestSession) =>
           /\ opening.tag = "Ok"
           /\ opening.val.eval = DirectEval(poly, point)
    /\ (op = "verify" /\ HonestSession /\ statement.value = opening.val.eval) =>
           accepted = Ok(TRUE)

C1_Witness ==
    /\ op = "verify"
    /\ degree(poly) = supported_degree
    /\ supported_degree = MaxDeg
    /\ CountLeadingZeros(PolyDiv(poly, <<FrNeg(point), FrOne>>), 0) > 0
    /\ opening.val.proof # G1Zero
    /\ statement.value = DirectEval(poly, point)
    /\ accepted = Ok(TRUE)

\* C2: negative statement rejection. Verifying the honest commitment and proof
\* against any value other than p(z) returns Ok(false).
C2_TamperedValueRejected ==
    (op = "verify" /\ HonestSession /\ statement.value # DirectEval(poly, point)) =>
        accepted = Ok(FALSE)

C2_Witness ==
    /\ op = "verify"
    /\ HonestSession
    /\ degree(poly) > 0
    /\ DirectEval(poly, point) = FrZero
    /\ statement.value # FrZero
    /\ accepted = Ok(FALSE)

\* the pairing identity as section 4.5 of the specification writes it:
\* e(C - v*g - z*W, h) * e(W, beta_h) = 1
WrittenIdentity(vp, st) ==
    (Pairing(G1Sub(G1Sub(st.commitment, G1Mul(vp.g, st.value)),
                   G1Mul(st.proof, st.point)), vp.h)
     + Pairing(st.proof, vp.beta_h)) % Q = GtOne

\* the identity with the first pairing's G1 argument negated in C and v*g:
\* e(v*g - z*W - C, h) * e(W, beta_h) = 1
NegatedIdentity(vp, st) ==
    (Pairing(G1Sub(G1Sub(G1Mul(vp.g, st.value), G1Mul(st.proof, st.point)),
                   st.commitment), vp.h)
     + Pairing(st.proof, vp.beta_h)) % Q = GtOne

VerifierRan == op \in {"verify", "verify_any"}

\* C3 as written: verify returns Ok(true) exactly when
\* e(C - v*g - z*W, h) * e(W, beta_h) = 1.
C3_AsWritten ==
    VerifierRan =>
        /\ accepted.tag = "Ok"
        /\ accepted.val <=> WrittenIdentity(verifier_param, statement)

\* C3 amended: verify returns Ok(true) exactly when
\* e(v*g - z*W - C, h) * e(W, beta_h) = 1.
C3_NegatedIdentity ==
    VerifierRan =>
        /\ accepted.tag = "Ok"
        /\ accepted.val <=> NegatedIdentity(verifier_param, statement)

C3_Witness ==
    /\ op = "verify_any"
    /\ accepted = Ok(TRUE)
    /\ statement.proof # G1Zero
    /\ statement.point # secret
    /\ ~WrittenIdentity(verifier_param, statement)

\* C4: verify returns Ok(true) exactly when e(C - v*g, h) = e(W, beta_h - z*h),
\* that is exactly when C - v*g = (tau - z)*W in G1.
C4_EquivalentForm ==
    VerifierRan =>
        LET lhs == G1Sub(statement.commitment, G1Mul(verifier_param.g, statement.value))
            g2  == (verifier_param.beta_h + Q
                    - G2Mul(verifier_param.h, statement.point)) % Q
        IN  /\ accepted.tag = "Ok"
            /\ accepted.val <=> (Pairing(lhs, verifier_param.h)
                                   = Pairing(statement.proof, g2))
            /\ accepted.val <=> (lhs = G1Mul(statement.proof,
                                              FrSub(secret, statement.point)))

C4_Witness ==
    /\ op = "verify_any"
    /\ accepted = Ok(TRUE)
    /\ statement.proof # G1Zero
    /\ statement.point # secret
    /\ statement.value # FrZero

\* C5 as written: commit succeeds on every polynomial of degree exactly the
\* supported degree and returns InvalidParameters on every polynomial of
\* degree one greater.
C5_DegreeBoundary ==
    op = "commit" =>
        /\ degree(poly) = supported_degree => commitment.tag = "Ok"
        /\ degree(poly) = supported_degree + 1 => commitment = InvalidParameters

\* ------------------------------------------------------------------------
\* Properties of batch_verify and batch_verify_aggregated
\* ------------------------------------------------------------------------
EqualLengths(n) ==
    /\ Len(statement.multi_commitment) = n
    /\ Len(statement.points) = n
    /\ Len(statement.values) = n
    /\ Len(statement.batch_proof) = n

\* statement i is commit and open of polys[i] at points[i], except that the
\* proof at index `but` is not looked at
HonestExcept(but) ==
    /\ EqualLengths(Len(polys))
    /\ \A i \in 1 .. Len(polys) :
        LET comm == commit(prover_param, polys[i])
            opened == open(prover_param, polys[i], statement.points[i])
        IN  /\ statement.multi_commitment[i] = comm.val
            /\ statement.values[i] = DirectEval(polys[i], statement.points[i])
            /\ i # but => statement.batch_proof[i] = opened.val.proof

\* C6: batch verify completeness. n honest statements and a stream of at
\* least n randomizers, of any values, make batch_verify return Ok(true).
C6_BatchCompleteness ==
    (/\ op = "batch_verify"
     /\ replaced = NoReplacement
     /\ HonestExcept(0)
     /\ Len(statement.randomizers) >= Len(polys)) =>
        accepted = Ok(TRUE)

C6_Witness ==
    /\ op = "batch_verify"
    /\ replaced = NoReplacement
    /\ HonestExcept(0)
    /\ Len(polys) = MaxN
    /\ Len(statement.randomizers) = MaxN
    /\ statement.randomizers[1] \notin {FrZero, FrOne}
    /\ polys[1] # polys[2]
    /\ statement.points[1] # statement.points[2]
    /\ statement.batch_proof[2] # G1Zero
    /\ accepted = Ok(TRUE)

OneProofReplaced ==
    /\ op = "batch_verify"
    /\ replaced # NoReplacement
    /\ HonestExcept(replaced.index)
    /\ statement.batch_proof[replaced.index] =
           open(prover_param, replaced.poly, statement.points[replaced.index]).val.proof
    /\ Len(statement.randomizers) >= Len(polys)

\* C7 as written: with one proof replaced by the opening proof of a different
\* polynomial at the same point, batch_verify returns Ok(false).
C7_AsWritten == OneProofReplaced => accepted = Ok(FALSE)

\* the randomizer batch_verify applies to statement i: 1, then the stream
AppliedRandomizer(i) == IF i = 1 THEN FrOne ELSE statement.randomizers[i - 1]

\* C7 amended: with one proof replaced, batch_verify returns Ok(false) exactly
\* when the substituted proof differs from the honest one as a group element,
\* the randomizer applied to that statement is not zero and its point is not
\* tau; otherwise it returns Ok(true).
C7_RejectsUnlessDegenerate ==
    OneProofReplaced =>
        LET i == replaced.index
            honest == open(prover_param, polys[i], statement.points[i]).val.proof
        IN  accepted = Ok(~(/\ statement.batch_proof[i] # honest
                            /\ AppliedRandomizer(i) # FrZero
                            /\ statement.points[i] # secret))

C7_Witness ==
    /\ OneProofReplaced
    /\ Len(polys) = MaxN
    /\ replaced.index = MaxN
    /\ accepted = Ok(FALSE)

\* C8: randomizer exhaustion. batch_verify over n >= 1 statements returns
\* InvalidParameters when the stream holds fewer than n values, and
\* batch_verify_aggregated with n >= 1 values returns InvalidParameters when
\* the stream holds fewer than n - 1 values.
C8_Exhaustion ==
    /\ (/\ op = "batch_verify"
        /\ Len(statement.values) >= 1
        /\ EqualLengths(Len(statement.values))
        /\ Len(statement.randomizers) < Len(statement.values)) =>
           accepted = InvalidParameters
    /\ (/\ op = "batch_verify_aggregated"
        /\ Len(statement.values) >= 1
        /\ Len(statement.randomizers) < Len(statement.values) - 1) =>
           accepted = InvalidParameters

C8_Witness ==
    /\ op = "batch_verify"
    /\ Len(statement.values) = MaxN
    /\ EqualLengths(MaxN)
    /\ Len(statement.randomizers) = MaxN - 1
    /\ accepted = InvalidParameters

\* the commitments inside the single-pair accumulators
Unwrapped(multi_commitment) ==
    [j \in 1 .. Len(multi_commitment) |-> multi_commitment[j][1][2]]

\* C9 as written: at ARITY = 1 with every combiner 1, batch_verify_aggregated
\* returns what batch_verify returns on the same statements and stream.
C9_ReducesToBatchVerify ==
    op = "batch_verify_aggregated" =>
        accepted = batch_verify(verifier_param, Unwrapped(statement.multi_commitment),
                                statement.points[1], statement.values,
                                statement.batch_proof[1], statement.randomizers)

\* C10 as written: batch_verify and batch_verify_aggregated return
\* InvalidParameters when their parallel lists differ in length.
C10_LengthAgreement ==
    /\ (op = "batch_verify" /\ ~EqualLengths(Len(statement.values))) =>
           accepted = InvalidParameters
    /\ (/\ op = "batch_verify_aggregated"
        /\ ~(/\ Len(statement.multi_commitment) = Len(statement.values)
             /\ Len(statement.points[1]) = Len(statement.values)
             /\ Len(statement.batch_proof[1]) = Len(statement.values)
             /\ Len(statement.combiners[1]) = Len(statement.values))) =>
           accepted = InvalidParameters

\* ------------------------------------------------------------------------
\* Totality of the operations
\* ------------------------------------------------------------------------
Returned(result) == result.tag \in {"Ok", "Err"}

\* C11 as written: no operation panics. Whatever the polynomial and the
\* point, commit, open and verify end with Ok or with an error value, never
\* with an out-of-range slice of powers_of_g.
C11_NoPanic ==
    /\ op \in {"commit", "open", "verify"} => Returned(commitment)
    /\ op \in {"open", "verify"} => Returned(opening)
    /\ op \in {"verify", "verify_any"} => Returned(accepted)

\* C12 as written: open returns InvalidParameters on every polynomial whose
\* degree exceeds the supported degree, and Ok on every polynomial of degree
\* at most the supported degree.
C12_OpenDegreeCheck ==
    op = "open" =>
        /\ degree(poly) > supported_degree => opening = InvalidParameters
        /\ degree(poly) <= supported_degree => opening.tag = "Ok"

\* ------------------------------------------------------------------------
\* Properties of trim and of commit's linear combination
\* ------------------------------------------------------------------------
\* C15: univariate trim rejects a variable count. With Some(k) it returns
\* InvalidParameters for every k and produces no keys; with None it returns
\* exactly what the SRS's own trim returns, success or error.
C15_TrimRejectsNumVars ==
    op = "trim_call" =>
        LET srs == gen_srs_for_testing(secret, MaxDeg)
        IN  /\ statement.supported_num_vars # NoVars =>
                   returned = InvalidParameters
            /\ statement.supported_num_vars = NoVars =>
                   returned = srs_trim(srs, statement.supported_degree)

C15_Witness ==
    /\ op = "trim_call"
    /\ statement.supported_num_vars = Some(MaxVars)
    /\ statement.supported_degree = MaxDeg
    /\ srs_trim(gen_srs_for_testing(secret, MaxDeg), MaxDeg).tag = "Ok"
    /\ returned = InvalidParameters

\* sum of p_i * powers_of_g[i] over every coefficient, zero or not
RECURSIVE FullCombination(_, _, _)
FullCombination(p, powers_of_g, k) ==
    IF k = 0 THEN G1Zero
    ELSE G1Add(FullCombination(p, powers_of_g, k - 1),
               G1Mul(powers_of_g[k], p[k]))

\* C18: commit computes the full linear combination. For every polynomial of
\* degree at most the supported degree the commitment is the sum of
\* p_i * powers_of_g[i], that is p(tau) * g, although leading zero
\* coefficients are skipped; the zero polynomial commits to the identity.
C18_FullLinearCombination ==
    (op = "commit" /\ HonestSession) =>
        /\ commitment = Ok(FullCombination(poly, prover_param.powers_of_g, Len(poly)))
        /\ commitment.val = G1Mul(verifier_param.g, DirectEval(poly, secret))
        /\ is_zero(poly) => commitment = Ok(G1Zero)

C18_Witness ==
    /\ op = "commit"
    /\ degree(poly) = supported_degree
    /\ supported_degree = MaxDeg
    /\ CountLeadingZeros(poly, 0) > 0
    /\ secret \notin {FrZero, FrOne}
    /\ commitment = Ok(G1Mul(verifier_param.g, DirectEval(poly, secret)))
    /\ commitment.val # G1Zero

\* ------------------------------------------------------------------------
\* Properties of batch_commit and batch_open
\* ------------------------------------------------------------------------
\* C13: batch_commit preserves order under parallel execution. Whatever the
\* order in which the workers finish, if every commit succeeds the result is
\* the list whose i-th element is commit(prover_param, polys[i]); if some
\* commit fails the result is InvalidParameters and no partial list.
C13_OrderPreserved ==
    op = "batch_commit_done" =>
        LET each == [i \in 1 .. Len(polys) |-> commit(prover_param, polys[i])]
        IN  IF \A i \in 1 .. Len(polys) : each[i].tag = "Ok"
            THEN returned = Ok([i \in 1 .. Len(polys) |-> each[i].val])
            ELSE returned = InvalidParameters

C13_Witness ==
    /\ op = "batch_commit_done"
    /\ Len(polys) = MaxN
    /\ slots[1][1] = MaxN
    /\ returned.tag = "Ok"
    /\ returned.val[1] # returned.val[MaxN]
    /\ returned.val[MaxN] = slots[1][2].val

\* C14 as written: batch_open returns InvalidParameters exactly when the two
\* lists differ in length; otherwise it returns two lists of that length whose
\* i-th entries are the proof and the evaluation of
\* open(prover_param, polynomials[i], points[i]); and the result is the same
\* for every batch commitment.
C14_BatchOpen ==
    op = "batch_open" =>
        LET ps == statement.polynomials
            zs == statement.points
        IN  /\ returned = InvalidParameters <=> Len(ps) # Len(zs)
            /\ Len(ps) = Len(zs) =>
                   /\ returned.tag = "Ok"
                   /\ Len(returned.val.batch_proof) = Len(ps)
                   /\ Len(returned.val.evals) = Len(ps)
                   /\ \A i \in 1 .. Len(ps) :
                          open(prover_param, ps[i], zs[i]) =
                              Ok([proof |-> returned.val.batch_proof[i],
                                  eval |-> returned.val.evals[i]])
            /\ \A bc \in BatchCommitments :
                   batch_open(prover_param, bc, ps, zs) = returned

\* ------------------------------------------------------------------------
\* The combinations checked by the two batch verifiers
\* ------------------------------------------------------------------------
RECURSIVE G1Sum(_, _)
G1Sum(terms, k) ==
    IF k = 0 THEN G1Zero ELSE G1Add(G1Sum(terms, k - 1), terms[k])

RECURSIVE FrSum(_, _)
FrSum(terms, k) ==
    IF k = 0 THEN FrZero ELSE FrAdd(FrSum(terms, k - 1), terms[k])

\* C16: batch_verify's combination. For n statements in lists of equal length
\* and a stream of at least n values, with r_1 = 1 and r_i the (i-1)-th stream
\* value, batch_verify returns Ok(true) exactly when
\* e(-total_w, beta_h) * e(total_c, h) = 1 for total_w = sum r_i*W_i and
\* total_c = sum r_i*(z_i*W_i + C_i) - (sum r_i*v_i)*g, that is exactly when
\* sum r_i*(C_i - v_i*g - (tau - z_i)*W_i) = 0; the n-th stream value has no
\* influence.
C16_Combination ==
    (/\ op = "batch_verify"
     /\ EqualLengths(Len(statement.values))
     /\ Len(statement.randomizers) >= Len(statement.values)) =>
        LET n == Len(statement.values)
            C == statement.multi_commitment
            z == statement.points
            v == statement.values
            W == statement.batch_proof
            r == [i \in 1 .. n |-> AppliedRandomizer(i)]
            total_w == G1Sum([i \in 1 .. n |-> G1Mul(W[i], r[i])], n)
            total_c ==
                G1Sub(G1Sum([i \in 1 .. n |->
                                G1Mul(G1Add(G1Mul(W[i], z[i]), C[i]), r[i])], n),
                      G1Mul(verifier_param.g,
                            FrSum([i \in 1 .. n |-> FrMul(r[i], v[i])], n)))
            defect ==
                G1Sum([i \in 1 .. n |->
                          G1Mul(G1Sub(G1Sub(C[i], G1Mul(verifier_param.g, v[i])),
                                      G1Mul(W[i], FrSub(secret, z[i]))),
                                r[i])], n)
        IN  /\ accepted = Ok(ProductOfPairings(
                                 <<G1Neg(total_w), total_c>>,
                                 <<verifier_param.beta_h, verifier_param.h>>) = GtOne)
            /\ accepted = Ok(defect = G1Zero)

C16_Witness ==
    /\ op = "batch_verify"
    /\ EqualLengths(MaxN)
    /\ Len(statement.randomizers) = MaxN
    /\ statement.randomizers[MaxN - 1] \notin {FrZero, FrOne}
    /\ statement.randomizers[MaxN] # statement.randomizers[MaxN - 1]
    /\ \A i \in 1 .. MaxN : statement.batch_proof[i] # G1Zero
    /\ \E i \in 1 .. MaxN : statement.values[i] # FrZero
    /\ secret # FrZero
    /\ accepted = Ok(TRUE)

\* C17: batch_verify_aggregated's combination. With the sequence r_1 = 1,
\* r_j the (j-1)-th stream value, shared by all ARITY pipelines, the call
\* returns Ok(true) exactly when e(total_w, beta_h) * e(-total_c, h) = 1 for
\* total_w = sum over pipelines i and items j of r_j*combiners[i][j]*W_ij and
\* total_c = sum_j r_j*MSM(multi_commitment[j])
\*           + sum_i sum_j r_j*combiners[i][j]*points[i][j]*W_ij
\*           - (sum_j r_j*values[j])*g.
C17_AggregatedCombination ==
    (/\ op = "batch_verify_aggregated"
     /\ Len(statement.values) >= 1
     /\ Len(statement.randomizers) >= Len(statement.values) - 1) =>
        LET n == Len(statement.values)
            r == [j \in 1 .. n |-> AppliedRandomizer(j)]
            W == statement.batch_proof
            z == statement.points
            c == statement.combiners
            PipelineW(i) ==
                G1Sum([j \in 1 .. n |-> G1Mul(W[i][j], FrMul(r[j], c[i][j]))], n)
            PipelineC(i) ==
                G1Sum([j \in 1 .. n |->
                          G1Mul(W[i][j], FrMul(FrMul(r[j], c[i][j]), z[i][j]))], n)
            total_w == G1Sum([i \in 1 .. ARITY |-> PipelineW(i)], ARITY)
            total_c ==
                G1Sub(G1Add(G1Sum([j \in 1 .. n |->
                                      G1Mul(SB_multi_scalar_mul(
                                                statement.multi_commitment[j]),
                                            r[j])], n),
                            G1Sum([i \in 1 .. ARITY |-> PipelineC(i)], ARITY)),
                      G1Mul(verifier_param.g,
                            FrSum([j \in 1 .. n |->
                                      FrMul(r[j], statement.values[j])], n)))
        IN  accepted = Ok(ProductOfPairings(
                              <<total_w, G1Neg(total_c)>>,
                              <<verifier_param.beta_h, verifier_param.h>>) = GtOne)

C17_Witness ==
    /\ op = "batch_verify_aggregated"
    /\ Len(statement.values) = MaxN
    /\ Len(statement.randomizers) = MaxN - 1
    /\ statement.randomizers[MaxN - 1] \notin {FrZero, FrOne}
    /\ \E j \in 1 .. MaxN :
           /\ statement.combiners[1][j] # statement.combiners[2][j]
           /\ statement.points[1][j] # statement.points[2][j]
    /\ \E j \in 1 .. MaxN : statement.values[j] # FrZero
    /\ secret \notin {FrZero, FrOne}
    /\ accepted = Ok(TRUE)
====
